---- MODULE Spec2Model ----
(***************************************************************************)
(* Model of leontieff_model_reproducible_result.py: the Leontief_Model     *)
(* class (constructor and shock()) and the ReproducibleResult aggregator   *)
(* (run() and analyze_result()).                                           *)
(*                                                                         *)
(* Numbers are float64 values and every operation on them rounds as IEEE   *)
(* 754 prescribes (see "doubles" below).  The numpy routines are modelled  *)
(* by the operations their reference implementations perform, in that      *)
(* order and each rounded on its own: np.sum and np.dot accumulate from    *)
(* 0.0, left to right (what np.sum does with fewer than 8 entries),        *)
(* np.linalg.inv is LAPACK's dgesv on the identity as numpy's bundled      *)
(* lapack_lite computes it (dgetf2, then the two triangular solves of      *)
(* dgetrs), np.quantile is the "linear" method of numpy 1.22 and later.    *)
(*                                                                         *)
(* Indices are those of the source: sectors are 0 .. N-1.                  *)
(***************************************************************************)
EXTENDS Integers, Sequences, FiniteSets

\* ------------------------------------------------------------------ bounds
\* Number of sector-country rows; 3195 in the source, scaled down.
N == 3

\* Number of final-demand columns; 402 in the source, scaled down.
FdCols == 2

\* Default sample_size of shock(); 300 of 3195 in the source, scaled down.
DefaultSampleSize == 2

\* Largest number_of_replications an aggregator is constructed with.
MaxReplications == 2

Idx == 0 .. (N - 1)

\* ----------------------------------------------------------------- doubles
\* float64 (IEEE 754 binary64), as Python and numpy compute with it.  A double
\* is a record [k, s, e, m]:
\*   k = "fin"  the finite value s * m * 2^e, s in {1, -1}, m a natural number
\*              below 2^53 held as a sequence of limbs (least significant
\*              first, base LimbBase); m has exactly 53 bits for a normal
\*              number, fewer (with e = MinExp) for a subnormal one, and is
\*              <<>> (with e = 0) for +0 and -0;
\*   k = "inf"  s * infinity;
\*   k = "nan"  NaN.
\* Every operation rounds to nearest, ties to even, as the hardware does.
LimbBits == 15

LimbBase == 32768

MantBits == 53

MinExp == -1074

MaxExp == 971

Pow2(k) == 2 ^ k

\* --- natural numbers as limb sequences
RECURSIVE NNorm(_)
NNorm(a) ==
    IF a = <<>> THEN a
    ELSE IF a[Len(a)] = 0 THEN NNorm(SubSeq(a, 1, Len(a) - 1))
    ELSE a

Limb(a, i) == IF i <= Len(a) THEN a[i] ELSE 0

RECURSIVE NFromInt(_)
NFromInt(k) == IF k = 0 THEN <<>> ELSE <<k % LimbBase>> \o NFromInt(k \div LimbBase)

RECURSIVE NAddC(_, _, _, _)
NAddC(a, b, i, c) ==
    IF i > Len(a) /\ i > Len(b) THEN (IF c = 0 THEN <<>> ELSE <<c>>)
    ELSE LET t == Limb(a, i) + Limb(b, i) + c
         IN  <<t % LimbBase>> \o NAddC(a, b, i + 1, t \div LimbBase)

NAdd(a, b) == NAddC(a, b, 1, 0)

RECURSIVE NSubC(_, _, _, _)
NSubC(a, b, i, c) ==
    IF i > Len(a) THEN <<>>
    ELSE LET t == a[i] - Limb(b, i) - c
         IN  <<IF t < 0 THEN t + LimbBase ELSE t>> \o NSubC(a, b, i + 1, IF t < 0 THEN 1 ELSE 0)

\* a - b for a >= b.
NSub(a, b) == NNorm(NSubC(a, b, 1, 0))

RECURSIVE NCmpAt(_, _, _)
NCmpAt(a, b, i) ==
    IF i = 0 THEN 0
    ELSE IF a[i] < b[i] THEN -1
    ELSE IF a[i] > b[i] THEN 1
    ELSE NCmpAt(a, b, i - 1)

\* -1, 0 or 1 as a < b, a = b or a > b.
NCmp(a, b) ==
    IF Len(a) < Len(b) THEN -1
    ELSE IF Len(a) > Len(b) THEN 1
    ELSE NCmpAt(a, b, Len(a))

RECURSIVE NMulSmallC(_, _, _, _)
NMulSmallC(a, d, i, c) ==
    IF i > Len(a) THEN (IF c = 0 THEN <<>> ELSE <<c>>)
    ELSE LET t == a[i] * d + c
         IN  <<t % LimbBase>> \o NMulSmallC(a, d, i + 1, t \div LimbBase)

\* a * d for a limb d.
NMulSmall(a, d) == IF d = 0 THEN <<>> ELSE NMulSmallC(a, d, 1, 0)

RECURSIVE NMulFrom(_, _, _)
NMulFrom(a, b, j) ==
    IF j > Len(b) THEN <<>>
    ELSE NAdd(NMulSmall(a, b[j]), IF NMulFrom(a, b, j + 1) = <<>> THEN <<>>
                                  ELSE <<0>> \o NMulFrom(a, b, j + 1))

NMul(a, b) == IF a = <<>> THEN <<>> ELSE NMulFrom(a, b, 1)

\* a * 2^k.
NShl(a, k) ==
    IF a = <<>> THEN a
    ELSE [i \in 1 .. (k \div LimbBits) |-> 0] \o NMulSmall(a, Pow2(k % LimbBits))

\* floor(a / 2^k).
NShr(a, k) ==
    LET q == k \div LimbBits
        r == k % LimbBits
    IN  IF q >= Len(a) THEN <<>>
        ELSE NNorm([i \in 1 .. (Len(a) - q) |->
                      (a[i + q] \div Pow2(r))
                      + (Limb(a, i + q + 1) % Pow2(r)) * Pow2(LimbBits - r)])

RECURSIVE BitLenSmall(_)
BitLenSmall(d) == IF d = 0 THEN 0 ELSE 1 + BitLenSmall(d \div 2)

\* The number of bits of a: 0 for 0.
NBitLen(a) == IF a = <<>> THEN 0 ELSE (Len(a) - 1) * LimbBits + BitLenSmall(a[Len(a)])

\* Bit k of a (bit 0 is the least significant).
NBit(a, k) == (Limb(a, (k \div LimbBits) + 1) \div Pow2(k % LimbBits)) % 2

\* Whether one of the k lowest bits of a is set.
NLowBits(a, k) ==
    \/ \E i \in 1 .. (k \div LimbBits) : Limb(a, i) # 0
    \/ Limb(a, (k \div LimbBits) + 1) % Pow2(k % LimbBits) # 0

\* --- doubles
Fin(s, e, m) == [k |-> "fin", s |-> s, e |-> e, m |-> m]

SignedZero(s) == Fin(s, 0, <<>>)

Zero == SignedZero(1)

Inf(s) == [k |-> "inf", s |-> s, e |-> 0, m |-> <<>>]

NaN == [k |-> "nan", s |-> 1, e |-> 0, m |-> <<>>]

IsNaN(x) == x.k = "nan"

IsInf(x) == x.k = "inf"

IsFinite(x) == x.k = "fin"

IsZero(x) == x.k = "fin" /\ x.m = <<>>

\* The number of low bits of a mantissa that do not fit, d0 of them being
\* beyond MantBits: more when the exponent e + d0 is below the smallest one.
DropBits(e, d0) == IF e + d0 < MinExp THEN MinExp - e ELSE d0

\* The double s * r * 2^e for a rounded mantissa r: rounding up may have
\* carried into one bit more than fits; infinite when the exponent is too
\* large.
Carry(s, r, e) ==
    IF r = <<>> THEN SignedZero(s)
    ELSE IF NBitLen(r) > MantBits
         THEN (IF e + 1 > MaxExp THEN Inf(s) ELSE Fin(s, e + 1, NShr(r, 1)))
    ELSE IF e > MaxExp THEN Inf(s)
    ELSE Fin(s, e, r)

\* The mantissa q with bits dropped below it, rounded to nearest, ties to
\* even: half is the first bit dropped, sticky whether a later one is set.
RoundUp(s, q, e, half, sticky) ==
    Carry(s, IF half /\ (sticky \/ NBit(q, 0) = 1) THEN NAdd(q, <<1>>) ELSE q, e)

RoundDrop(s, m, e, drop) ==
    IF drop <= 0 THEN Fin(s, e + drop, NShl(m, -drop))
    ELSE RoundUp(s, NShr(m, drop), e + drop, NBit(m, drop - 1) = 1, NLowBits(m, drop - 1))

\* The double nearest to s * m * 2^e (m # 0), ties to even; infinite when the
\* rounded value is too large, subnormal or zero when it is too small.
Round(s, m, e) == RoundDrop(s, m, e, DropBits(e, NBitLen(m) - MantBits))

\* The double of the integer k.
Int2F(k) == IF k = 0 THEN Zero ELSE Round(IF k < 0 THEN -1 ELSE 1, NFromInt(IF k < 0 THEN -k ELSE k), 0)

One == Int2F(1)

FNeg(x) == IF IsNaN(x) THEN x ELSE [x EXCEPT !.s = -x.s]

FAbs(x) == IF IsNaN(x) THEN x ELSE [x EXCEPT !.s = 1]

\* x + y for finite non-zero x and y with x.e >= y.e: a is the mantissa of x
\* at the exponent of y, and c compares it with the mantissa of y.
AddAligned(x, y, a, c) ==
    IF x.s # y.s /\ c = 0 THEN Zero
    ELSE Round(IF x.s = y.s \/ c > 0 THEN x.s ELSE y.s,
               IF x.s = y.s THEN NAdd(a, y.m)
               ELSE IF c > 0 THEN NSub(a, y.m)
               ELSE NSub(y.m, a),
               y.e)

\* x + y for finite non-zero x and y, x the one with the larger exponent.
AddFinite(x, y) ==
    IF x.e - y.e > MantBits + 2 THEN x
    ELSE AddAligned(x, y, NShl(x.m, x.e - y.e), NCmp(NShl(x.m, x.e - y.e), y.m))

FAdd(x, y) ==
    IF IsNaN(x) \/ IsNaN(y) THEN NaN
    ELSE IF IsInf(x) /\ IsInf(y) THEN (IF x.s = y.s THEN x ELSE NaN)
    ELSE IF IsInf(x) THEN x
    ELSE IF IsInf(y) THEN y
    ELSE IF IsZero(x) /\ IsZero(y) THEN (IF x.s = y.s THEN x ELSE Zero)
    ELSE IF IsZero(x) THEN y
    ELSE IF IsZero(y) THEN x
    ELSE AddFinite(IF x.e >= y.e THEN x ELSE y, IF x.e >= y.e THEN y ELSE x)

FSub(x, y) == FAdd(x, FNeg(y))

FMul(x, y) ==
    IF IsNaN(x) \/ IsNaN(y) THEN NaN
    ELSE IF IsInf(x) \/ IsInf(y)
         THEN (IF IsZero(x) \/ IsZero(y) THEN NaN ELSE Inf(x.s * y.s))
    ELSE IF IsZero(x) \/ IsZero(y) THEN SignedZero(x.s * y.s)
    ELSE Round(x.s * y.s, NMul(x.m, y.m), x.e + y.e)

\* The next bit of a quotient: q2 is twice the quotient so far and r2 twice
\* what is left to divide by b.
DivBit(q2, r2, b) ==
    IF NCmp(r2, b) >= 0
    THEN [q |-> NAdd(q2, <<1>>), rem |-> NSub(r2, b)]
    ELSE [q |-> q2, rem |-> r2]

\* One step of the long division by b: the next bit of the quotient st.q.
DivStep(st, b) == DivBit(NAdd(st.q, st.q), NAdd(st.rem, st.rem), b)

\* The long division of st.rem * 2^steps by b (st.rem < b), one bit of the
\* quotient per step; st.q holds the bits found so far.  With nothing left to
\* divide every further bit is 0.
RECURSIVE DivSteps(_, _, _)
DivSteps(st, b, steps) ==
    IF st.rem = <<>> THEN [q |-> NShl(st.q, steps), rem |-> <<>>]
    ELSE IF steps = 0 THEN st
    ELSE IF steps = 1 THEN DivStep(st, b)
    ELSE DivSteps(DivSteps(st, b, steps \div 2), b, steps - (steps \div 2))

DivBits == 56

\* The quotient d of two mantissas to DivBits fractional bits, rounded, with
\* one more bit telling whether anything is left over.
DivRound(s, d, e) ==
    Round(s, NAdd(NAdd(d.q, d.q), IF d.rem = <<>> THEN <<>> ELSE <<1>>), e - DivBits - 1)

\* s * (a / b) * 2^e for mantissas a and b of MantBits bits each.
DivAligned(s, a, b, e) ==
    DivRound(s,
             DivSteps(IF NCmp(a, b) >= 0 THEN [q |-> <<1>>, rem |-> NSub(a, b)]
                      ELSE [q |-> <<>>, rem |-> a],
                      b, DivBits),
             e)

\* x / y for finite non-zero x and y, each mantissa scaled to MantBits bits.
DivFinite(x, y) ==
    DivAligned(x.s * y.s,
               NShl(x.m, MantBits - NBitLen(x.m)),
               NShl(y.m, MantBits - NBitLen(y.m)),
               (x.e - (MantBits - NBitLen(x.m))) - (y.e - (MantBits - NBitLen(y.m))))

FDiv(x, y) ==
    IF IsNaN(x) \/ IsNaN(y) THEN NaN
    ELSE IF IsInf(x) THEN (IF IsInf(y) THEN NaN ELSE Inf(x.s * y.s))
    ELSE IF IsInf(y) THEN SignedZero(x.s * y.s)
    ELSE IF IsZero(y) THEN (IF IsZero(x) THEN NaN ELSE Inf(x.s * y.s))
    ELSE IF IsZero(x) THEN SignedZero(x.s * y.s)
    ELSE DivFinite(x, y)

\* x == y as doubles compare: -0 equals +0, NaN equals nothing.
FEq(x, y) ==
    /\ ~IsNaN(x)
    /\ ~IsNaN(y)
    /\ \/ x = y
       \/ IsZero(x) /\ IsZero(y)

\* |x| < |y| for x and y that are not NaN.  Finite doubles of the same
\* exponent compare as their mantissas do, others as their exponents do.
MagLess(x, y) ==
    IF IsInf(x) \/ IsZero(y) THEN FALSE
    ELSE IF IsInf(y) \/ IsZero(x) THEN TRUE
    ELSE x.e < y.e \/ (x.e = y.e /\ NCmp(x.m, y.m) < 0)

\* x < y as doubles compare (FALSE when either is NaN).
FLess(x, y) ==
    IF IsNaN(x) \/ IsNaN(y) THEN FALSE
    ELSE IF IsZero(x) /\ IsZero(y) THEN FALSE
    ELSE IF x.s # y.s THEN x.s < y.s
    ELSE MagLess(IF x.s = 1 THEN x ELSE y, IF x.s = 1 THEN y ELSE x)

\* One bit of a square root: half is half the root so far, bit the bit tried,
\* and t what taking it removes from what is left (num) of the number.
SqrtTry(num, t, half, bit) ==
    IF NCmp(num, t) >= 0
    THEN [num |-> NSub(num, t), res |-> NAdd(half, bit)]
    ELSE [num |-> num, res |-> half]

\* One step of the digit-by-digit square root: st.res is the root so far,
\* st.num what is left of the number, and 2^p the square of the bit tried.
SqrtStep(st, p) ==
    SqrtTry(st.num, NAdd(st.res, NShl(<<1>>, p)), NShr(st.res, 1), NShl(<<1>>, p))

\* The steps for the bits p, p - 2, ..., p - 2 * (steps - 1).  With nothing
\* left of the number every further step halves the root.
RECURSIVE SqrtSteps(_, _, _)
SqrtSteps(st, p, steps) ==
    IF st.num = <<>> THEN [num |-> <<>>, res |-> NShr(st.res, steps)]
    ELSE IF steps = 0 THEN st
    ELSE IF steps = 1 THEN SqrtStep(st, p)
    ELSE SqrtSteps(SqrtSteps(st, p, steps \div 2), p - 2 * (steps \div 2),
                   steps - (steps \div 2))

SqrtBits == 58

\* The root st of a mantissa scaled to exponent e, rounded, with one more bit
\* telling whether anything is left over.
SqrtRound(st, e) ==
    Round(1, NAdd(NAdd(st.res, st.res), IF st.num = <<>> THEN <<>> ELSE <<1>>),
          (e \div 2) - 1)

\* The square root of m * 2^e for an even e.
SqrtScaled(m, e) ==
    SqrtRound(SqrtSteps([num |-> m, res |-> <<>>],
                        2 * ((NBitLen(m) - 1) \div 2), ((NBitLen(m) - 1) \div 2) + 1),
              e)

\* The square root of a finite x > 0: the integer square root of the mantissa
\* scaled by 2^SqrtBits (and by 2 more when the exponent is odd).
SqrtFinite(x) ==
    LET sh == MantBits - NBitLen(x.m)
        odd == (x.e - sh) % 2 = 1
    IN  SqrtScaled(NShl(x.m, sh + (IF odd THEN SqrtBits + 1 ELSE SqrtBits)),
                   (IF odd THEN x.e - sh - 1 ELSE x.e - sh) - SqrtBits)

FSqrt(x) ==
    IF IsNaN(x) THEN NaN
    ELSE IF IsZero(x) THEN x
    ELSE IF x.s = -1 THEN NaN
    ELSE IF IsInf(x) THEN x
    ELSE SqrtFinite(x)

\* floor(x) as an integer, for a finite x >= 0 below 2^30.
FloorInt(x) ==
    LET n == IF x.e >= 0 THEN NShl(x.m, x.e) ELSE NShr(x.m, -x.e)
    IN  Limb(n, 1) + Limb(n, 2) * LimbBase


\* The function f itself (an array, once computed, holds its entries: they are
\* not computed again each time one of them is read).
Tab(f) == IF f = <<>> THEN <<>> ELSE f

\* The double nearest to the decimal n/d, as the literal 0.3 is for 3/10.
Dec(n, d) == FDiv(Int2F(n), Int2F(d))

\* The smallest normal double (LAPACK's dlamch('S')).
SafeMin == Round(1, <<1>>, -1022)

RECURSIVE FSumFrom(_, _, _)
FSumFrom(s, k, acc) == IF k > Len(s) THEN acc ELSE FSumFrom(s, k + 1, FAdd(acc, s[k]))

\* The sum of a sequence of doubles, accumulated from 0.0 in index order.
FSumSeq(s) == FSumFrom(s, 1, Zero)

\* The entries of a vector indexed 0 .. N-1, in index order.
VecSeq(v) == Tab([k \in 1 .. N |-> v[k - 1]])

\* np.sum of a length-N vector.
FSumVec(v) == FSumSeq(VecSeq(v))

\* np.dot(matrix, vector): row i of the product is sum_j matrix[i][j] * vector[j].
Dot(m, v) == Tab([i \in Idx |-> FSumSeq(Tab([k \in 1 .. N |-> FMul(m[i][k - 1], v[k - 1])]))])

\* ------------------------------------------------------------ input tables
IdxSeq == [k \in 1 .. N |-> k - 1]

\* The row labels of the table: sector i is labelled i.
RowLabels == [i \in Idx |-> i]

\* Column labels that do not match the row labels: the first two are swapped.
SwappedLabels == [i \in Idx |-> IF i = 0 THEN 1 ELSE IF i = 1 THEN 0 ELSE i]

\* The contents of ICIO2021_2018.csv.  The flows io[0][0], io[0][1], io[1][0]
\* and the outputs of sectors 0 and 1 vary; every other flow is 0, every later
\* sector has output 2, and every sector has final demand 2 (in the first
\* final-demand column).  The table satisfies the output identity
\* A.output + demand = output iff a00 + a01 + 2 = o0 and a10 + 2 = o1.
Table(a00, a01, a10, o0, o1, labels) ==
    [row_labels |-> RowLabels,
     col_labels |-> labels,
     io |-> [i \in Idx |-> [j \in Idx |->
                IF i = 0 /\ j = 0 THEN a00
                ELSE IF i = 0 /\ j = 1 THEN a01
                ELSE IF i = 1 /\ j = 0 THEN a10
                ELSE 0]],
     fd |-> [i \in Idx |-> [c \in 1 .. FdCols |-> IF c = 1 THEN 2 ELSE 0]],
     out |-> [i \in Idx |-> IF i = 0 THEN o0 ELSE IF i = 1 THEN o1 ELSE 2]]

\* The flows and outputs tried, as <<a00, a01, a10, o0, o1>>:
\*   <<2,0,0,4,2>>  satisfies the output identity; A and the inverse are exact
\*   <<0,2,2,4,4>>  satisfies the output identity; the inverse holds rounded
\*                  thirds
\*   <<2,2,2,6,4>>  satisfies the output identity; A holds a rounded third, and
\*                  sum(inverse . demand) misses total_output by rounding
\*   <<0,0,0,2,4>>  no flows; the outputs are not what the identity gives
\*   <<2,0,0,2,4>>  A[0][0] = 1: the first pivot of I - A is 0 (LinAlgError)
\*   <<0,0,0,0,4>>  sector 0 has output 0 and no flow into its column: the
\*                  column of A is 0/0, replaced by 0
\*   <<0,2,2,0,4>>  sector 0 has output 0 and a flow into its column:
\*                  A[1][0] = inf, and the factorisation of I - A goes through
\*   <<0,0,2,0,4>>  the same without the flow from sector 0 to sector 1:
\*                  A[1][0] = inf, and the second pivot of I - A is 0
\*                  (LinAlgError)
\*   <<0,2,0,2,4>>  does not satisfy the output identity (sector 0 has output
\*                  2, not 4), yet sum((I - A) . output) is total_final_demand
TableParams ==
    { <<2, 0, 0, 4, 2>>, <<0, 2, 2, 4, 4>>, <<2, 2, 2, 6, 4>>, <<0, 0, 0, 2, 4>>,
      <<2, 0, 0, 2, 4>>, <<0, 0, 0, 0, 4>>, <<0, 2, 2, 0, 4>>, <<0, 0, 2, 0, 4>>,
      <<0, 2, 0, 2, 4>> }

Tables ==
    { Table(p[1], p[2], p[3], p[4], p[5], l) :
        p \in TableParams, l \in {RowLabels, SwappedLabels} }

\* ------------------------------------------------- Leontief_Model.__init__
\* self.df.iloc[0:N,0] == self.df.columns[1:N+1]).all()
LabelsMatch(t) == \A i \in Idx : t.row_labels[i] = t.col_labels[i]

\* self.df.iloc[0:N, N+1:...].sum(axis=1): the row-wise sum of the final-demand block.
Demand(t) == Tab([i \in Idx |-> FSumSeq(Tab([c \in 1 .. FdCols |-> Int2F(t.fd[i][c])]))])

\* np.divide(io_matrix, output): entry [i][j] is io[i][j] / output[j].
Quotients(io, output) ==
    Tab([i \in Idx |-> Tab([j \in Idx |-> FDiv(io[i][j], output[j])])])

\* self.A[np.isnan(self.A)] = 0
ReplaceNaN(a) ==
    Tab([i \in Idx |-> Tab([j \in Idx |-> IF IsNaN(a[i][j]) THEN Zero ELSE a[i][j]])])

\* np.identity(N)
Identity == Tab([i \in Idx |-> Tab([j \in Idx |-> IF i = j THEN One ELSE Zero])])

MatSub(a, b) == Tab([i \in Idx |-> Tab([j \in Idx |-> FSub(a[i][j], b[i][j])])])

\* idamax on column j of a, rows j .. N-1: the first row whose entry has the
\* largest absolute value (an entry is replaced only by a strictly larger one,
\* so a NaN is never preferred and never given up).
RECURSIVE PivotRow(_, _, _, _)
PivotRow(a, j, i, best) ==
    IF i > N - 1 THEN best
    ELSE PivotRow(a, j, i + 1, IF FLess(FAbs(a[best][j]), FAbs(a[i][j])) THEN i ELSE best)

SwapRows(a, p, q) == Tab([i \in Idx |-> IF i = p THEN a[q] ELSE IF i = q THEN a[p] ELSE a[i]])

\* The column j of a below the pivot a[j][j], scaled: multiplied by the
\* reciprocal recip of the pivot (dscal) when byRecip, else divided by it.
ScaleColumn(a, j, recip, byRecip) ==
    Tab([i \in Idx |-> Tab([k \in Idx |->
        IF i > j /\ k = j
        THEN (IF byRecip THEN FMul(recip, a[i][j]) ELSE FDiv(a[i][j], a[j][j]))
        ELSE a[i][k]])])

\* dger on the rows and columns of a beyond j: a[i][k] - a[i][j] * a[j][k],
\* skipping the columns whose pivot-row entry is 0.
UpdateRest(a, j) ==
    Tab([i \in Idx |-> Tab([k \in Idx |->
        IF i > j /\ k > j /\ ~IsZero(a[j][k])
        THEN FAdd(a[i][k], FMul(a[i][j], FNeg(a[j][k])))
        ELSE a[i][k]])])

\* Column j of dgetf2 on st = [a, b, info] with pivot row p: the pivot row is
\* swapped up (in a and in the right-hand sides b), the column below the pivot
\* is scaled by the reciprocal of the pivot if that is at least SafeMin in
\* absolute value, else divided by the pivot, and the rest of the matrix is
\* updated.  An exactly zero pivot is recorded in info and leaves the column as
\* it is.
Getf2Pivot(st, j, p) ==
    [a |-> UpdateRest(IF IsZero(st.a[p][j]) THEN st.a
                      ELSE ScaleColumn(SwapRows(st.a, j, p), j, FDiv(One, st.a[p][j]),
                                       ~IsNaN(st.a[p][j])
                                         /\ ~FLess(FAbs(st.a[p][j]), SafeMin)),
                      j),
     b |-> IF IsZero(st.a[p][j]) THEN st.b ELSE SwapRows(st.b, j, p),
     info |-> IF IsZero(st.a[p][j]) /\ st.info = 0 THEN j + 1 ELSE st.info]

Getf2Step(st, j) == Getf2Pivot(st, j, PivotRow(st.a, j, j + 1, j))

RECURSIVE Getf2(_, _)
Getf2(st, j) == IF j > N - 1 THEN st ELSE Getf2(Getf2Step(st, j), j + 1)

\* The LU factorisation of m with partial pivoting, and the identity with its
\* rows permuted alike; info is the first column with a zero pivot, or 0.
Factor(m) == Getf2([a |-> m, b |-> Identity, info |-> 0], 0)

\* dtrsm with the unit lower triangle of a on the column b: from row 0 down,
\* an entry that is not 0 is taken out of the rows below it.
RECURSIVE SolveLower(_, _, _)
SolveLower(a, b, k) ==
    IF k > N - 1 THEN b
    ELSE IF IsZero(b[k]) THEN SolveLower(a, b, k + 1)
    ELSE SolveLower(a, Tab([i \in Idx |-> IF i > k THEN FSub(b[i], FMul(b[k], a[i][k]))
                                           ELSE b[i]]),
                    k + 1)

\* b with its entry k taken out of the rows above it.
EliminateAbove(a, b, k) ==
    Tab([i \in Idx |-> IF i < k THEN FSub(b[i], FMul(b[k], a[i][k])) ELSE b[i]])

\* dtrsm with the upper triangle of a on the column b: from row N-1 up, an
\* entry that is not 0 is divided by the diagonal and taken out of the rows
\* above it.
RECURSIVE SolveUpper(_, _, _)
SolveUpper(a, b, k) ==
    IF k < 0 THEN b
    ELSE IF IsZero(b[k]) THEN SolveUpper(a, b, k - 1)
    ELSE SolveUpper(a, EliminateAbove(a, Tab([b EXCEPT ![k] = FDiv(@, a[k][k])]), k), k - 1)

\* np.linalg.inv raises LinAlgError when the factorisation lu met a pivot that
\* is exactly 0.
Singular(lu) == lu.info > 0

Transpose(x) == Tab([i \in Idx |-> Tab([c \in Idx |-> x[c][i]])])

\* np.linalg.inv otherwise, from the factorisation lu of the matrix: column c
\* of the inverse solves the system with right-hand side e_c.
Inverse(lu) ==
    Transpose(Tab([c \in Idx |->
        SolveUpper(lu.a, SolveLower(lu.a, Tab([i \in Idx |-> lu.b[i][c]]), 0), N - 1)]))

\* Lines 45-53: io_matrix, demand and output as read from the table t.
Arrays(t) ==
    [io_matrix |-> Tab([i \in Idx |-> Tab([j \in Idx |-> Int2F(t.io[i][j])])]),
     demand |-> Demand(t),
     output |-> Tab([i \in Idx |-> Int2F(t.out[i])])]

\* Lines 56-57: the attributes m with the coefficient matrix A.
WithA(m) ==
    [io_matrix |-> m.io_matrix, demand |-> m.demand, output |-> m.output,
     A |-> ReplaceNaN(Quotients(m.io_matrix, m.output))]

\* Line 65: the attributes m with I - A.
WithIMinusA(m) ==
    [io_matrix |-> m.io_matrix, demand |-> m.demand, output |-> m.output, A |-> m.A,
     I_minus_A |-> MatSub(Identity, m.A)]

\* Lines 66-78: the inverse, from the factorisation lu of I - A, and the totals.
WithInverse(m, lu) ==
    IF Singular(lu)
    THEN [status |-> "raised", error |-> "LinAlgError"]
    ELSE [status |-> "ok",
          io_matrix |-> m.io_matrix,
          demand |-> m.demand,
          output |-> m.output,
          A |-> m.A,
          I_minus_A |-> m.I_minus_A,
          leontief_inverse |-> Inverse(lu),
          total_output |-> FSumVec(m.output),
          total_final_demand |-> FSumVec(m.demand)]

Invert(m) == WithInverse(m, Factor(m.I_minus_A))

\* The constructor on table t; asserts tells whether assert statements run
\* (they do not under python -O).
Leontief_Model(t, asserts) ==
    IF asserts /\ ~LabelsMatch(t)
    THEN [status |-> "raised", error |-> "AssertionError"]
    ELSE Invert(WithIMinusA(WithA(Arrays(t))))

\* ------------------------------------------------------ Leontief_Model.shock
\* The shock_type arguments tried: the two supported strings, another string,
\* and a value that is not a string.
ShockTypes == {"Demand", "Supply", "Unknown", "<int 5>"}

IsStr(shock_type) == shock_type # "<int 5>"

\* The shock_size arguments tried: 0, 0.3 and 1.0.
ShockSizes == {Zero, Dec(3, 10), One}

\* The sample_size arguments tried: 0 .. N+1.
SampleSizes == 0 .. (N + 1)

\* Lines 115-122: the attributes that matrix, vector and benchmark are bound
\* to; with an unsupported shock_type they stay unbound.
Unbound == [matrix |-> "unbound", vector |-> "unbound", benchmark |-> "unbound"]

Select(shock_type) ==
    IF shock_type = "Demand"
    THEN [matrix |-> "leontief_inverse", vector |-> "demand", benchmark |-> "total_output"]
    ELSE IF shock_type = "Supply"
    THEN [matrix |-> "I_minus_A", vector |-> "output", benchmark |-> "total_final_demand"]
    ELSE Unbound

\* Line 124: assert False, "Unknown shock type {:s}".format(shock_type).  The
\* message is formatted first, and "{:s}" rejects a value that is not a string
\* with ValueError (Unknown format code 's').
ParseError(shock_type) == IF IsStr(shock_type) THEN "AssertionError" ELSE "ValueError"

\* The sequences of k pairwise distinct elements of 0 .. n-1.
RECURSIVE InjectiveSeqs(_, _)
InjectiveSeqs(n, k) ==
    IF k = 0 THEN {<<>>}
    ELSE UNION { { Append(s, e) : e \in (0 .. (n - 1)) \ {s[j] : j \in 1 .. Len(s)} } :
                 s \in InjectiveSeqs(n, k - 1) }

\* np.random.choice with replace=True: entries may repeat.
RandomChoiceWithReplacement(n, k) == [1 .. k -> 0 .. (n - 1)]

\* Line 130: np.random.choice(np.arange(n), replace=False, size=k), for
\* 0 <= k <= n: the first k entries of a random permutation of 0 .. n-1.
RandomChoice(n, k) == InjectiveSeqs(n, k)

\* mod_vector = vector without the copy: mod_vector is the attribute itself.
ModVectorObjectAliased(vector_ref) == vector_ref

\* Line 132: mod_vector = vector.copy() is a new object, not the attribute
\* that vector is bound to.
ModVectorObject(vector_ref) == "mod_vector"

\* The factor without the "1 -": the share removed instead of the share kept.
ShockFactorShare(shock_size) == shock_size

\* Line 133: the factor the sampled entry is multiplied by.
ShockFactor(shock_size) == FSub(One, shock_size)

\* Lines 132-133: the copy of the vector v with entry sec shocked.
ModVector(v, sec, shock_size) == Tab([v EXCEPT ![sec] = FMul(@, ShockFactor(shock_size))])

\* Lines 134-135.
Effect(matrix, mod_v, benchmark) == FSub(One, FDiv(FSumSeq(VecSeq(Dot(matrix, mod_v))), benchmark))

\* ------------------------------------------------------------- statistics
RECURSIVE SortedInsert(_, _)
SortedInsert(s, x) ==
    IF s = <<>> THEN <<x>>
    ELSE IF FLess(x, s[1]) THEN <<x>> \o s
    ELSE <<s[1]>> \o SortedInsert(Tail(s), x)

RECURSIVE Sorted(_)
Sorted(s) == IF s = <<>> THEN <<>> ELSE SortedInsert(Sorted(Tail(s)), s[1])

\* np.mean: the sum over the count; NaN (0/0) for an empty sequence.
Mean(xs) == FDiv(FSumSeq(xs), Int2F(Len(xs)))

\* xs - mu, entry by entry.
Deviations(xs, mu) == Tab([k \in 1 .. Len(xs) |-> FSub(xs[k], mu)])

\* x * x, entry by entry.
Squares(x) == Tab([k \in 1 .. Len(x) |-> FMul(x[k], x[k])])

\* np.std: the square root of the mean squared deviation from the mean.
Std(xs) == FSqrt(Mean(Squares(Deviations(xs, Mean(xs)))))

\* numpy's _lerp between a and b at t.
Lerp(a, b, t) ==
    IF FLess(t, Dec(1, 2))
    THEN FAdd(a, FMul(FSub(b, a), t))
    ELSE FSub(b, FMul(FSub(b, a), FSub(One, t)))

\* The interpolation in the sorted s of length n around the virtual index; an
\* index at or beyond the last position (above) selects the last entry twice.
QuantileAt(s, n, virtual, above) ==
    Lerp(s[IF above THEN n ELSE FloorInt(virtual) + 1],
         s[IF above THEN n ELSE FloorInt(virtual) + 2],
         FSub(virtual, Int2F(IF above THEN -1 ELSE FloorInt(virtual))))

\* np.quantile(xs, q) (method "linear") for a non-empty xs and 0 <= q < 1: NaN
\* if xs holds a NaN; else, with s the sorted xs and the virtual index
\* (len - 1) * q, the interpolation between the entries of s around that index.
Quantile(xs, q) ==
    IF xs = <<>> THEN NaN
    ELSE IF \E k \in 1 .. Len(xs) : IsNaN(xs[k]) THEN NaN
    ELSE QuantileAt(Sorted(xs), Len(xs), FMul(Int2F(Len(xs) - 1), q),
                    ~FLess(FMul(Int2F(Len(xs) - 1), q), Int2F(Len(xs) - 1)))

\* Lines 139-144.
ResultDict(effects) ==
    [Shock_effect_data |-> effects,
     Average |-> Mean(effects),
     Standard_deviation |-> Std(effects),
     Median |-> Quantile(effects, Dec(1, 2)),
     Upper_5pct_quantile |-> Quantile(effects, Dec(95, 100)),
     Upper_1pct_quantile |-> Quantile(effects, Dec(99, 100))]

NoResult == [Shock_effect_data |-> <<>>]

\* shock() as a function of the model m, its arguments and the sectors drawn:
\* the effects the loop records, and the dictionary returned.
ShockEffects(m, s, shock_size, secs) ==
    Tab([k \in 1 .. Len(secs) |->
        Effect(m[s.matrix], ModVector(m[s.vector], secs[k], shock_size), m[s.benchmark])])

Shock(m, shock_type, shock_size, secs) ==
    ResultDict(ShockEffects(m, Select(shock_type), shock_size, secs))

\* ----------------------------------------------------- ReproducibleResult
\* Line 171: self.shock_sizes = [0.3, 0.7, 1.0]
ShockSizeList == <<Dec(3, 10), Dec(7, 10), One>>

\* Lines 172-174: the three keys, each with an empty list.
EmptyResult ==
    [for_30pct_shock_size |-> <<>>,
     for_70pct_shock_size |-> <<>>,
     for_100pct_shock_size |-> <<>>]

\* The key chosen with both comparisons made against the first shock size.
ResultKeyFirstOnly(shock_size, sizes) ==
    IF FEq(shock_size, sizes[1]) THEN "for_30pct_shock_size"
    ELSE IF FEq(shock_size, sizes[1]) THEN "for_70pct_shock_size"
    ELSE "for_100pct_shock_size"

\* Lines 194-199: the key a replication's value is appended under.
ResultKey(shock_size, sizes) ==
    IF FEq(shock_size, sizes[1]) THEN "for_30pct_shock_size"
    ELSE IF FEq(shock_size, sizes[2]) THEN "for_70pct_shock_size"
    ELSE "for_100pct_shock_size"

\* Line 200: run() returns the attribute self.return_result itself, not a copy.
ReturnedObject == "self.return_result"

\* Line 191: the replications of one shock size.
Replications(number) == 0 .. (number - 1)

\* The tables the file holds during a run of the aggregator: one that gives a
\* model, the same with misaligned labels, and one whose I - A is singular.
AggTables ==
    {Table(0, 2, 2, 4, 4, RowLabels), Table(0, 2, 2, 4, 4, SwappedLabels),
     Table(2, 0, 0, 2, 4, RowLabels)}

\* The aggregator runs in an interpreter that runs assert statements (the
\* default).
AggAsserts == {TRUE}

\* Leontief_Model() on each of these tables.
FileModel == [asserts \in AggAsserts, t \in AggTables |-> Leontief_Model(t, asserts)]

\* L.shock(shock_size = shock_size) on the model L a replication constructed,
\* if it did construct one.
DefaultShockOn(L, shock_size, secs) ==
    IF L.status = "ok" THEN Shock(L, "Demand", shock_size, secs) ELSE NoResult

\* L.shock(shock_size = shock_size) on each of these models, for each shock
\* size of the aggregator and each sample of the default size: shock_type and
\* sample_size take their defaults.
DefaultShock ==
    [asserts \in AggAsserts, t \in AggTables,
     shock_size \in {ShockSizeList[k] : k \in 1 .. Len(ShockSizeList)},
     secs \in RandomChoice(N, DefaultSampleSize) |->
        DefaultShockOn(FileModel[asserts, t], shock_size, secs)]

\* The values run() appends under the key of shock size number k.
AggValues ==
    [k \in 1 .. Len(ShockSizeList) |->
        { r.Upper_1pct_quantile :
            r \in { DefaultShock[asserts, t, ShockSizeList[k], secs] :
                      asserts \in AggAsserts, t \in AggTables,
                      secs \in RandomChoice(N, DefaultSampleSize) } \ {NoResult} }]

\* The sequences of at most n elements of S.
SeqsUpTo(S, n) == UNION { [1 .. len -> S] : len \in 0 .. n }

\* np.mean and np.std of each list that two calls of run() can leave under a key.
StatsTable ==
    [k \in 1 .. Len(ShockSizeList) |->
        Tab([xs \in SeqsUpTo(AggValues[k], 2 * MaxReplications) |-> <<Mean(xs), Std(xs)>>])]

\* Lines 213-214: np.mean(xs) and np.std(xs) for the list xs under key number k.
MeanStdIn(table, xs) == IF xs \in DOMAIN table THEN table[xs] ELSE <<Mean(xs), Std(xs)>>

MeanStd(k, xs) == MeanStdIn(StatsTable[k], xs)

\* Lines 213-215: the mean and standard deviation printed for each key.
Printed(res, show_plot) ==
    [for_30pct_shock_size |-> MeanStd(1, res.for_30pct_shock_size),
     for_70pct_shock_size |-> MeanStd(2, res.for_70pct_shock_size),
     for_100pct_shock_size |-> MeanStd(3, res.for_100pct_shock_size),
     plot_saved |-> show_plot]

\* ------------------------------------------------------------------ state
VARIABLES
    assertions,     \* whether assert statements run (FALSE under python -O)
    model,          \* the Leontief_Model instance: its attributes, or how construction ended
    built,          \* the instance as the constructor left it
    pc,             \* where the caller / the current shock() call is
    call,           \* the arguments of the current shock() call
    sel,            \* the attributes matrix, vector and benchmark are bound to
    sectors,        \* the sampled sectors
    it,             \* the position of the loop in sectors
    mod_vector,     \* mod_vector of the last iteration
    shock_effects,  \* the effects recorded so far
    rng_used,       \* whether the call has drawn from the random generator
    stats_done,     \* whether the call has computed a statistic
    result_dict,    \* the value the last shock() call returned
    error,          \* the exception the last operation raised, or "none"
    number_of_replications, \* the aggregator's attribute
    shock_sizes,    \* the aggregator's attribute
    return_result,  \* the aggregator's attribute
    agg_pc,         \* where the aggregator's caller / the current run() call is
    calls,          \* which run() call was made last: "none", "first" or "second"
    size_ix,        \* the position of the outer loop of run() in shock_sizes
    replication,    \* the inner loop variable of run()
    first_ref,      \* the object the first run() call returned
    first_copy,     \* the contents of that object when it was returned
    run_start,      \* return_result when the current run() call began
    call_log,       \* the shock() calls run() has completed, in order
    n_models,       \* how many models run() has constructed
    printed         \* what the last analyze_result() call printed

mvars == <<model, built, pc, call, sel, sectors, it, mod_vector, shock_effects,
           rng_used, stats_done, result_dict, error>>

avars == <<number_of_replications, shock_sizes, return_result, agg_pc, calls, size_ix,
           replication, first_ref, first_copy, run_start, call_log, n_models, printed>>

vars == <<assertions, mvars, avars>>

NoCall == [shock_type |-> "none", shock_size |-> Zero, sample_size |-> 0]

NoVector == [i \in Idx |-> Zero]

NoPrint == [plot_saved |-> FALSE]

\* No model has been constructed and no shock() call made.
ModelInit ==
    /\ model = [status |-> "none"]
    /\ built = [status |-> "none"]
    /\ pc = "new"
    /\ call = NoCall
    /\ sel = Unbound
    /\ sectors = <<>>
    /\ it = 0
    /\ mod_vector = NoVector
    /\ shock_effects = <<>>
    /\ rng_used = FALSE
    /\ stats_done = FALSE
    /\ result_dict = NoResult
    /\ error = "none"

\* ReproducibleResult.__init__(number), lines 170-174.
AggInit(number) ==
    /\ number_of_replications = number
    /\ shock_sizes = ShockSizeList
    /\ return_result = EmptyResult
    /\ agg_pc = "idle"
    /\ calls = "none"
    /\ size_ix = 0
    /\ replication = 0
    /\ first_ref = "none"
    /\ first_copy = EmptyResult
    /\ run_start = EmptyResult
    /\ call_log = <<>>
    /\ n_models = 0
    /\ printed = NoPrint

Init ==
    /\ assertions \in BOOLEAN
    /\ ModelInit
    /\ AggInit(1)

\* L = Leontief_Model() on the table the file holds.
Construct ==
    /\ pc = "new"
    /\ \E t \in Tables :
         \E m \in {Leontief_Model(t, assertions)} :
             /\ model' = m
             /\ built' = m
             /\ pc' = IF m.status = "ok" THEN "idle" ELSE "ctor_raised"
             /\ error' = IF m.status = "ok" THEN "none" ELSE m.error
    /\ UNCHANGED <<assertions, call, sel, sectors, it, mod_vector, shock_effects,
                   rng_used, stats_done, result_dict, avars>>

\* A call of shock(shock_type, shock_size, sample_size), lines 115-124.
ShockCall ==
    /\ pc \in {"idle", "returned", "raised"}
    /\ \E shock_type \in ShockTypes, shock_size \in ShockSizes, sample_size \in SampleSizes :
         /\ call' = [shock_type |-> shock_type, shock_size |-> shock_size,
                     sample_size |-> sample_size]
         /\ sel' = Select(shock_type)
         /\ IF Select(shock_type) = Unbound /\ assertions
            THEN pc' = "raised" /\ error' = ParseError(shock_type)
            ELSE pc' = "selected" /\ error' = "none"
    /\ sectors' = <<>>
    /\ it' = 0
    /\ mod_vector' = NoVector
    /\ shock_effects' = <<>>
    /\ rng_used' = FALSE
    /\ stats_done' = FALSE
    /\ result_dict' = NoResult
    /\ UNCHANGED <<assertions, model, built, avars>>

\* Lines 129-130.  np.random.choice raises ValueError, before it draws, when
\* the sample is larger than the population.
ShockSample ==
    /\ pc = "selected"
    /\ IF call.sample_size > N
       THEN /\ pc' = "raised"
            /\ error' = "ValueError"
            /\ UNCHANGED <<sectors, it, rng_used>>
       ELSE /\ sectors' \in RandomChoice(N, call.sample_size)
            /\ rng_used' = TRUE
            /\ it' = 1
            /\ pc' = "loop"
            /\ UNCHANGED error
    /\ UNCHANGED <<assertions, model, built, call, sel, mod_vector, shock_effects,
                   stats_done, result_dict, avars>>

\* One iteration of the loop, lines 131-136.  Reading the unbound name vector
\* raises UnboundLocalError.
ShockIter ==
    /\ pc = "loop"
    /\ it <= Len(sectors)
    /\ IF sel = Unbound
       THEN /\ pc' = "raised"
            /\ error' = "UnboundLocalError"
            /\ UNCHANGED <<model, it, mod_vector, shock_effects>>
       ELSE \E mod_v \in {ModVector(model[sel.vector], sectors[it], call.shock_size)} :
            LET obj == ModVectorObject(sel.vector)
                written == IF obj = "mod_vector" THEN model ELSE [model EXCEPT ![obj] = mod_v]
            IN  /\ mod_vector' = mod_v
                /\ model' = written
                /\ shock_effects' = Append(shock_effects,
                       Effect(written[sel.matrix], mod_v, written[sel.benchmark]))
                /\ it' = it + 1
                /\ UNCHANGED <<pc, error>>
    /\ UNCHANGED <<assertions, built, call, sel, sectors, rng_used, stats_done,
                   result_dict, avars>>

\* Lines 139-146.  On an empty sample np.mean and np.std give NaN, and
\* np.quantile gives NaN or raises IndexError, depending on the numpy version.
ShockStats ==
    /\ pc = "loop"
    /\ it > Len(sectors)
    /\ stats_done' = TRUE
    /\ \E raises \in {b \in BOOLEAN : b => shock_effects = <<>>} :
         IF raises
         THEN pc' = "raised" /\ error' = "IndexError" /\ UNCHANGED result_dict
         ELSE pc' = "returned" /\ result_dict' = ResultDict(shock_effects) /\ UNCHANGED error
    /\ UNCHANGED <<assertions, model, built, call, sel, sectors, it, mod_vector,
                   shock_effects, rng_used, avars>>

Next == Construct \/ ShockCall \/ ShockSample \/ ShockIter \/ ShockStats

Spec == Init /\ [][Next]_vars

\* ------------------------------------------------- the aggregator's actions
\* An aggregator constructed with number_of_replications in 1 .. MaxReplications.
InitAgg ==
    /\ assertions \in AggAsserts
    /\ ModelInit
    /\ \E number \in 1 .. MaxReplications : AggInit(number)

\* run() is called (at most twice on one aggregator): the loops start.
RunCall ==
    /\ agg_pc \in {"idle", "returned", "raised"}
    /\ calls # "second"
    /\ calls' = IF calls = "none" THEN "first" ELSE "second"
    /\ agg_pc' = "running"
    /\ size_ix' = 1
    /\ replication' = 0
    /\ run_start' = return_result
    /\ printed' = NoPrint
    /\ UNCHANGED <<assertions, mvars, number_of_replications, shock_sizes, return_result,
                   first_ref, first_copy, call_log, n_models>>

\* One replication, lines 192-199: a model is constructed from the file and
\* shock(shock_size = shock_size) is called on it; an exception of either
\* ends run().
Replication ==
    /\ agg_pc = "running"
    /\ size_ix <= Len(shock_sizes)
    /\ replication \in Replications(number_of_replications)
    /\ \E t \in AggTables :
         LET shock_size == shock_sizes[size_ix]
         IN  IF FileModel[assertions, t].status # "ok"
             THEN /\ agg_pc' = "raised"
                  /\ UNCHANGED <<return_result, call_log, n_models, size_ix, replication>>
             ELSE \E secs \in RandomChoice(N, DefaultSampleSize) :
                  \E demand_shock_effects \in {DefaultShock[assertions, t, shock_size, secs]} :
                    LET value == demand_shock_effects.Upper_1pct_quantile
                        key == ResultKey(shock_size, shock_sizes)
                        last == replication + 1 \notin Replications(number_of_replications)
                    IN  /\ return_result' = [return_result EXCEPT ![key] = Append(@, value)]
                        /\ call_log' = Append(call_log,
                               [call |-> calls, size_ix |-> size_ix,
                                replication |-> replication, shock_type |-> "Demand",
                                shock_size |-> shock_size,
                                sample_size |-> DefaultSampleSize, value |-> value])
                        /\ n_models' = n_models + 1
                        /\ size_ix' = IF last THEN size_ix + 1 ELSE size_ix
                        /\ replication' = IF last THEN 0 ELSE replication + 1
                        /\ UNCHANGED agg_pc
    /\ UNCHANGED <<assertions, mvars, number_of_replications, shock_sizes, calls,
                   first_ref, first_copy, run_start, printed>>

\* Line 200: the loops are over and run() returns.
RunReturn ==
    /\ agg_pc = "running"
    /\ size_ix > Len(shock_sizes)
    /\ agg_pc' = "returned"
    /\ IF first_ref = "none"
       THEN first_ref' = ReturnedObject /\ first_copy' = return_result
       ELSE UNCHANGED <<first_ref, first_copy>>
    /\ UNCHANGED <<assertions, mvars, number_of_replications, shock_sizes, return_result,
                   calls, size_ix, replication, run_start, call_log, n_models, printed>>

\* analyze_result(show_plot), lines 213-228.
AnalyzeResult ==
    /\ agg_pc \in {"idle", "returned", "raised"}
    /\ \E show_plot \in BOOLEAN : printed' = Printed(return_result, show_plot)
    /\ UNCHANGED <<assertions, mvars, number_of_replications, shock_sizes, return_result,
                   agg_pc, calls, size_ix, replication, first_ref, first_copy, run_start,
                   call_log, n_models>>

NextAgg == RunCall \/ Replication \/ RunReturn \/ AnalyzeResult

\* An aggregator on which run() is called at most twice.
SpecAgg == InitAgg /\ [][NextAgg]_vars

\* run() is called on an aggregator on which it was not called before.
FirstRunCall == calls = "none" /\ RunCall

NextRun == FirstRunCall \/ Replication \/ RunReturn \/ AnalyzeResult

\* An aggregator on which run() is called at most once.
SpecRun == InitAgg /\ [][NextRun]_vars

\* ------------------------------------------------------------------ claims
\* What the caller of the first run() sees in the mapping it was given.
FirstResult == IF first_ref = "self.return_result" THEN return_result ELSE first_copy

InShock == call.shock_type # "none"

\* C1: a shock() call with a shock_type other than "Demand" and "Supply" fails
\* before any computation: it draws nothing from the random generator, computes
\* no statistic and returns nothing, with assert statements on or off.
C1_InvalidTypeAbortsBeforeComputation ==
    (InShock /\ call.shock_type \notin {"Demand", "Supply"})
        => (~rng_used /\ ~stats_done /\ pc # "returned")

\* C2: a shock() call with sample_size outside 1 .. N fails before it samples
\* and before it computes a statistic; it never gets past the sampling line and
\* never returns a result dictionary.
C2_InvalidSampleSizeAbortsBeforeSampling ==
    (InShock /\ call.sample_size \notin 1 .. N)
        => (~stats_done /\ pc \in {"selected", "raised"})

\* sum(matrix . vector) on the vector as the constructor left it, computed as
\* lines 134-135 compute it.
BaselineSum == FSumVec(Dot(built[sel.matrix], built[sel.vector]))

\* The effect of no shock at all: 1 - sum(matrix . vector) / benchmark on that
\* vector.
BaselineEffect == FSub(One, FDiv(BaselineSum, built[sel.benchmark]))

\* The output identity of lines 59-62 on the model built, evaluated as written
\* there: np.dot(A, output) + demand == output, entry by entry.
OutputIdentity ==
    \A i \in Idx : FEq(FAdd(Dot(built.A, built.output)[i], built.demand[i]), built.output[i])

ZeroShock == pc \in {"loop", "returned"} /\ sel # Unbound /\ call.shock_size = Zero

\* C3 as claimed: with shock_size = 0 every effect recorded is exactly 0, for
\* every model built from a table that passed the label check, whether or not
\* the table satisfies the output identity.
C3_ZeroShockZeroEffect ==
    (ZeroShock /\ assertions)
        => \A k \in 1 .. Len(shock_effects) : IsZero(shock_effects[k])

\* C3 as amended: with shock_size = 0 the sector drawn makes no difference:
\* every effect recorded is the double 1 - sum(matrix . vector) / benchmark
\* computed on the vector as the constructor left it, for both shock types.
\* That double is 0 exactly when the computed sum is equal to the benchmark
\* (given a finite sum and a finite non-zero benchmark): the quotient of two
\* different doubles never rounds to 1.  Nothing is said of the output
\* identity, which neither gives an equal sum nor is needed for one.
C3_ZeroShockEffectIsBaseline ==
    ZeroShock
        => \A k \in 1 .. Len(shock_effects) :
              /\ shock_effects[k] = BaselineEffect
              /\ (IsFinite(BaselineSum) /\ IsFinite(built[sel.benchmark])
                    /\ ~IsZero(built[sel.benchmark]))
                   => (IsZero(shock_effects[k]) <=> FEq(BaselineSum, built[sel.benchmark]))

\* A shock of size 0 on two or more sectors has returned with every effect 0,
\* on a model whose table does not satisfy the output identity: the computed
\* sum is equal to the benchmark all the same.
C3_Witness ==
    /\ ZeroShock
    /\ pc = "returned"
    /\ Len(shock_effects) >= 2
    /\ ~OutputIdentity
    /\ FEq(BaselineSum, built[sel.benchmark])
    /\ \A k \in 1 .. Len(shock_effects) : IsZero(shock_effects[k])

\* C4: in the coefficient matrix of a constructed model no entry is NaN or
\* infinite, and every column of a sector whose output is 0 is all zeros.
C4_CoefficientsFinite ==
    model.status = "ok"
        => \A i \in Idx, j \in Idx :
              /\ IsFinite(model.A[i][j])
              /\ IsZero(model.output[j]) => IsZero(model.A[i][j])

\* C5: the mapping the first run() call returned keeps the contents it had
\* when it was returned, whatever the aggregator does later.
C5_ReturnedMappingNotMutated == first_ref # "none" => FirstResult = first_copy

\* C6: after a run() call ended with an exception, the aggregator shows none
\* of the values that call recorded: return_result, and what analyze_result
\* prints from it, are as they were when the call began.
C6_NoPartialResultsAfterFailure ==
    agg_pc = "raised"
        => /\ return_result = run_start
           /\ printed # NoPrint => printed = Printed(run_start, printed.plot_saved)

\* C7: the mapping a run() call returns has exactly the three keys, each with
\* exactly number_of_replications values.
C7_RunReturnsRValuesPerKey ==
    agg_pc = "returned"
        => /\ DOMAIN return_result =
                {"for_30pct_shock_size", "for_70pct_shock_size", "for_100pct_shock_size"}
           /\ \A key \in DOMAIN return_result :
                Len(return_result[key]) = number_of_replications

\* C8: shock() leaves the model as the constructor built it, and the vector of
\* an iteration differs from the model's vector in the sampled entry only.
C8_ShockLeavesModelUnchanged ==
    pc \in {"idle", "selected", "loop", "returned", "raised"}
        => /\ model = built
           /\ (pc \in {"loop", "returned"} /\ it > 1 /\ sel # Unbound)
                => \A j \in Idx \ {sectors[it - 1]} : mod_vector[j] = built[sel.vector][j]

\* A full shock of two or more sectors has returned, and the last iteration's
\* vector differs from the model's.
C8_Witness ==
    /\ pc = "returned"
    /\ Len(sectors) >= 2
    /\ call.shock_size = One
    /\ mod_vector # built[sel.vector]
    /\ model = built

\* C9: for sample_size k in 1 .. N the sectors drawn are k pairwise distinct
\* indices in 0 .. N-1, and the Shock_effect_data returned holds k effects, the
\* i-th being the effect of shocking the i-th sector drawn.
C9_SampleDistinctInRange ==
    (pc \in {"loop", "returned"} /\ call.sample_size \in 1 .. N)
        => /\ Len(sectors) = call.sample_size
           /\ \A a \in 1 .. Len(sectors) : sectors[a] \in 0 .. (N - 1)
           /\ \A a, b \in 1 .. Len(sectors) : a # b => sectors[a] # sectors[b]
           /\ pc = "returned"
                => /\ Len(result_dict.Shock_effect_data) = call.sample_size
                   /\ \A a \in 1 .. call.sample_size :
                        result_dict.Shock_effect_data[a] =
                            Effect(built[sel.matrix],
                                   [built[sel.vector] EXCEPT ![sectors[a]] =
                                        FMul(@, FSub(One, call.shock_size))],
                                   built[sel.benchmark])

\* A shock on a sample of two or more sectors has returned its effects.
C9_Witness ==
    /\ pc = "returned"
    /\ call.sample_size >= 2
    /\ call.sample_size <= N
    /\ Len(result_dict.Shock_effect_data) = call.sample_size

\* The shock size each key of the mapping stands for.
SizeOfKey ==
    [for_30pct_shock_size |-> Dec(3, 10),
     for_70pct_shock_size |-> Dec(7, 10),
     for_100pct_shock_size |-> One]

LogOfSize(shock_size) == SelectSeq(call_log, LAMBDA e : e.shock_size = shock_size)

LogOfCall(c) == SelectSeq(call_log, LAMBDA e : e.call = c)

\* C10: run() takes the shock sizes in their configured order and the
\* replications of each in order 0 .. R-1, each on a model of its own, with
\* shock type Demand and the default sample size; the values under a key are
\* the Upper_1%_quantile values of the shock() calls made with that key's
\* shock size, in the order of the calls.
C10_ValuesStoredInReplicationOrder ==
    /\ \A key \in DOMAIN SizeOfKey :
         /\ Len(return_result[key]) = Len(LogOfSize(SizeOfKey[key]))
         /\ \A i \in 1 .. Len(return_result[key]) :
              return_result[key][i] = LogOfSize(SizeOfKey[key])[i].value
    /\ \A c \in {"first", "second"} :
         \A j \in 1 .. Len(LogOfCall(c)) :
            LET e == LogOfCall(c)[j]
            IN  /\ e.size_ix = ((j - 1) \div number_of_replications) + 1
                /\ e.replication = (j - 1) % number_of_replications
                /\ e.shock_size = ShockSizeList[e.size_ix]
                /\ e.shock_type = "Demand"
                /\ e.sample_size = DefaultSampleSize
    /\ n_models = Len(call_log)

\* A run() with two or more replications per shock size has returned, and two
\* replications of the first shock size gave different values.
C10_Witness ==
    /\ agg_pc = "returned"
    /\ number_of_replications >= 2
    /\ Len(return_result.for_30pct_shock_size) >= 2
    /\ return_result.for_30pct_shock_size[1] # return_result.for_30pct_shock_size[2]
    /\ Len(return_result.for_100pct_shock_size) = number_of_replications

====
